---- MODULE Spec2Model ----
(***************************************************************************)
(* BIOCHAIN: StudyRegistry, RevenueSplitter and DatasetMarketplace.        *)
(*                                                                         *)
(* Every public contract function is one action.  The host commits the     *)
(* writes and events of an invocation only when the function returns Ok;   *)
(* an Err return or a trap discards them (HostCommit).  A cross-contract   *)
(* call made with env.invoke_contract hands the callee's outcome to the    *)
(* caller as a Result value, which is how get_contributors_from_studies    *)
(* consumes it (match Ok / Err); the callee's own frame is committed only  *)
(* when the callee returned Ok.  The host attaches the events an           *)
(* invocation published to that invocation's outcome: events holds the     *)
(* events of the most recent invocation, in publication order.             *)
(***************************************************************************)
EXTENDS Integers, Sequences, FiniteSets, TLC

(***************************************************************************)
(* Bounds of the model.                                                    *)
(***************************************************************************)
MaxTime == 1
MaxFunds == 2

(***************************************************************************)
(* Program constants.                                                      *)
(***************************************************************************)
BASE_REWARD == 100000000
CONTRIBUTOR_PERCENT == 85
PLATFORM_PERCENT == 15
HashLen == 32

None == "none"

\* Addresses: the three contracts, the token contract, and plain accounts.
RegistryAddr == "registry"
SplitterAddr == "splitter"
TokenAddr == "usdc"
Contributors == {"c1", "c2"}
Buyers == {"b1", "b2"}
TreasuryAddr == "treasury"
Holders == {SplitterAddr, TreasuryAddr} \cup Contributors

\* Bytes values are sequences of byte values.
Rep(b, n) == [i \in 1..n |-> b]
H1 == Rep(1, HashLen)
H2 == Rep(2, HashLen)
ShortId == Rep(1, HashLen - 1)
Hashes == {H1, H2}
Proofs == {<<>>, <<7>>}
DatasetIds == {<<>>, <<1>>, <<2>>}
StudyLists == {<<>>, <<H1>>, <<H1, H2>>, <<ShortId, H2>>}
Prices == {-1, 0, 50000000, 200000000}
ContributorLists == {<<>>, <<"c1">>, <<"c1", "c2">>}
LinkChoices == {RegistryAddr, SplitterAddr}
TokenChoices == {TokenAddr, "c1"}
TreasuryChoices == {TreasuryAddr, "c2"}

VARIABLES
    studies,            \* StudyRegistry instance storage: dataset_hash -> StudyRecord
    datasets,           \* Marketplace storage: ("DATASET", dataset_id) -> Dataset
    purchases,          \* Marketplace storage: ("PURCHASE", dataset_id, buyer) -> PurchaseRecord
    revenue_splitter,   \* Marketplace storage: REV_SPLIT
    study_registry,     \* Marketplace storage: STUDY_REG
    usdc_token,         \* RevenueSplitter storage: USDC_TKN
    treasury,           \* RevenueSplitter storage: TREASURY
    balance,            \* balances held by the USDC token contract
    events,             \* events published by the most recent invocation, in order
    now,                \* ledger timestamp
    lastCall            \* the most recent invocation: function, arguments, outcome

vars == <<studies, datasets, purchases, revenue_splitter, study_registry,
          usdc_token, treasury, balance, events, now, lastCall>>

Put(f, k, v) == [x \in (DOMAIN f) \cup {k} |-> IF x = k THEN v ELSE f[x]]
EmptyMap == [x \in {} |-> None]

\* floor(a * b / c) for a, b >= 0, c > 0, computed without leaving 32 bits:
\* a = q*c + r gives a*b/c = q*b + r*b/c.
MulDiv(a, b, c) == (a \div c) * b + ((a % c) * b) \div c

Call(op, args, result, info) ==
    [op |-> op, args |-> args, result |-> result, info |-> info]
NoInfo == [steps |-> <<>>, contributors |-> <<>>, payout |-> "none",
           transfers |-> <<>>]

Init ==
    /\ studies = EmptyMap
    /\ datasets = EmptyMap
    /\ purchases = EmptyMap
    /\ revenue_splitter = None
    /\ study_registry = None
    /\ usdc_token = None
    /\ treasury = None
    /\ balance = [a \in Holders |-> 0]
    /\ events = <<>>
    /\ now = 0
    /\ lastCall = Call("none", <<>>, "Ok", NoInfo)

(***************************************************************************)
(* StudyRegistry                                                           *)
(***************************************************************************)
dataset_exists(dataset_hash) == dataset_hash \in DOMAIN studies

verify_zk_proof_mock(zk_proof, dataset_hash, attestation) ==
    Len(zk_proof) > 0 /\ Len(dataset_hash) = HashLen /\ Len(attestation) > 0

\* register_study with the proofs validated before the uniqueness check.
register_study_result_proofs_first(dataset_hash, attestation, zk_proof) ==
    IF Len(attestation) = 0 THEN "InvalidAttestation"
    ELSE IF Len(zk_proof) = 0 THEN "InvalidZKProof"
    ELSE IF dataset_exists(dataset_hash) THEN "DuplicateStudy"
    ELSE "Ok"

\* register_study validating the proof before the attestation.
register_study_result_zk_first(dataset_hash, attestation, zk_proof) ==
    IF dataset_exists(dataset_hash) THEN "DuplicateStudy"
    ELSE IF Len(zk_proof) = 0 THEN "InvalidZKProof"
    ELSE IF Len(attestation) = 0 THEN "InvalidAttestation"
    ELSE IF ~verify_zk_proof_mock(zk_proof, dataset_hash, attestation) THEN "InvalidZKProof"
    ELSE "Ok"

\* register_study without the uniqueness check.
register_study_result_overwrite(dataset_hash, attestation, zk_proof) ==
    IF Len(attestation) = 0 THEN "InvalidAttestation"
    ELSE IF Len(zk_proof) = 0 THEN "InvalidZKProof"
    ELSE IF ~verify_zk_proof_mock(zk_proof, dataset_hash, attestation) THEN "InvalidZKProof"
    ELSE "Ok"

\* The result of register_study, in the order the function decides it.
register_study_result(dataset_hash, attestation, zk_proof) ==
    IF dataset_exists(dataset_hash) THEN "DuplicateStudy"
    ELSE IF Len(attestation) = 0 THEN "InvalidAttestation"
    ELSE IF Len(zk_proof) = 0 THEN "InvalidZKProof"
    ELSE IF ~verify_zk_proof_mock(zk_proof, dataset_hash, attestation) THEN "InvalidZKProof"
    ELSE "Ok"

register_study(dataset_hash, attestation, zk_proof, contributor) ==
    LET result == register_study_result(dataset_hash, attestation, zk_proof)
        study_record == [dataset_hash |-> dataset_hash,
                         contributor |-> contributor,
                         timestamp |-> now]
        ev == [type |-> "StudyRegistered", dataset_hash |-> dataset_hash,
               contributor |-> contributor, timestamp |-> now]
    IN  /\ studies' = IF result = "Ok" THEN Put(studies, dataset_hash, study_record)
                       ELSE studies
        /\ events' = IF result = "Ok" THEN <<ev>> ELSE <<>>
        /\ lastCall' = Call("register_study",
                            [dataset_hash |-> dataset_hash, attestation |-> attestation,
                             zk_proof |-> zk_proof, contributor |-> contributor],
                            result, NoInfo)
        /\ UNCHANGED <<datasets, purchases, revenue_splitter, study_registry,
                       usdc_token, treasury, balance, now>>

get_study(dataset_hash) ==
    IF dataset_hash \in DOMAIN studies
    THEN [result |-> "Ok", value |-> studies[dataset_hash]]
    ELSE [result |-> "StudyNotFound", value |-> None]

(***************************************************************************)
(* The USDC token contract (external): transfer moves amount when the      *)
(* address is the token contract and the sender holds enough; otherwise    *)
(* the call traps.                                                         *)
(***************************************************************************)
transfer(token, bal, from, to, amount) ==
    IF token = TokenAddr /\ bal[from] >= amount
    THEN [ok |-> TRUE, balance |-> [bal EXCEPT ![from] = @ - amount, ![to] = @ + amount]]
    ELSE [ok |-> FALSE, balance |-> bal]

\* The host keeps a frame's effects when the function returned Ok and
\* discards them (keeping only the result) otherwise.
HostCommit(frame, clean) ==
    IF frame.result = "Ok" THEN frame ELSE [clean EXCEPT !.result = frame.result]

(***************************************************************************)
(* RevenueSplitter                                                         *)
(***************************************************************************)
\* The contributor's share taken with the platform's percentage.
user_amount_swapped == MulDiv(BASE_REWARD, PLATFORM_PERCENT, 100)

user_amount == MulDiv(BASE_REWARD, CONTRIBUTOR_PERCENT, 100)
platform_amount == BASE_REWARD - user_amount

\* init storing the token address only.
init_token_only(token, tre) ==
    /\ usdc_token' = token
    /\ treasury' = treasury
    /\ events' = <<>>
    /\ lastCall' = Call("init", [usdc_token |-> token, treasury |-> tre], "Ok", NoInfo)
    /\ UNCHANGED <<studies, datasets, purchases, revenue_splitter, study_registry,
                   balance, now>>

\* init keeping a configuration that is already stored.
init_once(token, tre) ==
    /\ usdc_token' = IF usdc_token = None THEN token ELSE usdc_token
    /\ treasury' = IF treasury = None THEN tre ELSE treasury
    /\ events' = <<>>
    /\ lastCall' = Call("init", [usdc_token |-> token, treasury |-> tre], "Ok", NoInfo)
    /\ UNCHANGED <<studies, datasets, purchases, revenue_splitter, study_registry,
                   balance, now>>

init(token, tre) ==
    /\ usdc_token' = token
    /\ treasury' = tre
    /\ events' = <<>>
    /\ lastCall' = Call("init", [usdc_token |-> token, treasury |-> tre], "Ok", NoInfo)
    /\ UNCHANGED <<studies, datasets, purchases, revenue_splitter, study_registry,
                   balance, now>>

get_usdc_token ==
    IF usdc_token = None THEN [result |-> "TokenNotSet", value |-> None]
    ELSE [result |-> "Ok", value |-> usdc_token]

get_treasury ==
    IF treasury = None THEN [result |-> "TreasuryNotSet", value |-> None]
    ELSE [result |-> "Ok", value |-> treasury]

\* A payout frame: the result so far, the token balances, the events and
\* transfers of this invocation, the running totals, and the order in which
\* the invocation made its transfers and published its events.
PayoutFrame(result, bal) ==
    [result |-> result, balance |-> bal, emitted |-> <<>>, transfers |-> <<>>,
     total_user_amount |-> 0, total_platform_amount |-> 0, steps |-> <<>>]

\* payout_step with the totals overwritten instead of accumulated.
payout_step_totals_overwritten(dataset_id, contributor, f) ==
    LET t1 == transfer(usdc_token, f.balance, SplitterAddr, contributor, user_amount)
        t2 == transfer(usdc_token, t1.balance, SplitterAddr, treasury, platform_amount)
        x1 == [to |-> contributor, amount |-> user_amount]
        x2 == [to |-> treasury, amount |-> platform_amount]
        ev == [type |-> "ContributorRewarded", dataset_id |-> dataset_id,
               contributor |-> contributor, user_amount |-> user_amount,
               platform_amount |-> platform_amount]
    IN  IF ~t1.ok THEN [f EXCEPT !.result = "Trap"]
        ELSE IF ~t2.ok
        THEN [f EXCEPT !.result = "Trap", !.balance = t1.balance,
                       !.transfers = Append(@, x1),
                       !.steps = Append(@, "transfer_user")]
        ELSE [f EXCEPT !.balance = t2.balance,
                       !.transfers = @ \o <<x1, x2>>,
                       !.steps = @ \o <<"transfer_user", "transfer_platform",
                                        "rewarded">>,
                       !.total_user_amount = user_amount,
                       !.total_platform_amount = platform_amount,
                       !.emitted = Append(@, ev)]

\* payout_step paying the treasury before the contributor.
payout_step_treasury_first(dataset_id, contributor, f) ==
    LET t1 == transfer(usdc_token, f.balance, SplitterAddr, treasury, platform_amount)
        t2 == transfer(usdc_token, t1.balance, SplitterAddr, contributor, user_amount)
        x1 == [to |-> treasury, amount |-> platform_amount]
        x2 == [to |-> contributor, amount |-> user_amount]
        ev == [type |-> "ContributorRewarded", dataset_id |-> dataset_id,
               contributor |-> contributor, user_amount |-> user_amount,
               platform_amount |-> platform_amount]
    IN  IF ~t1.ok THEN [f EXCEPT !.result = "Trap"]
        ELSE IF ~t2.ok
        THEN [f EXCEPT !.result = "Trap", !.balance = t1.balance,
                       !.transfers = Append(@, x1),
                       !.steps = Append(@, "transfer_platform")]
        ELSE [f EXCEPT !.balance = t2.balance,
                       !.transfers = @ \o <<x1, x2>>,
                       !.steps = @ \o <<"transfer_platform", "transfer_user",
                                        "rewarded">>,
                       !.total_user_amount = @ + user_amount,
                       !.total_platform_amount = @ + platform_amount,
                       !.emitted = Append(@, ev)]

\* payout_step publishing ContributorRewarded before it makes the transfers.
payout_step_event_first(dataset_id, contributor, f) ==
    LET t1 == transfer(usdc_token, f.balance, SplitterAddr, contributor, user_amount)
        t2 == transfer(usdc_token, t1.balance, SplitterAddr, treasury, platform_amount)
        x1 == [to |-> contributor, amount |-> user_amount]
        x2 == [to |-> treasury, amount |-> platform_amount]
        ev == [type |-> "ContributorRewarded", dataset_id |-> dataset_id,
               contributor |-> contributor, user_amount |-> user_amount,
               platform_amount |-> platform_amount]
    IN  IF ~t1.ok THEN [f EXCEPT !.result = "Trap", !.steps = Append(@, "rewarded")]
        ELSE IF ~t2.ok
        THEN [f EXCEPT !.result = "Trap", !.balance = t1.balance,
                       !.transfers = Append(@, x1),
                       !.steps = @ \o <<"rewarded", "transfer_user">>]
        ELSE [f EXCEPT !.balance = t2.balance,
                       !.transfers = @ \o <<x1, x2>>,
                       !.steps = @ \o <<"rewarded", "transfer_user",
                                        "transfer_platform">>,
                       !.total_user_amount = @ + user_amount,
                       !.total_platform_amount = @ + platform_amount,
                       !.emitted = Append(@, ev)]

\* Step 5 and 6 of payout_for_dataset for one contributor: two transfers,
\* the totals, the ContributorRewarded event.
payout_step(dataset_id, contributor, f) ==
    LET t1 == transfer(usdc_token, f.balance, SplitterAddr, contributor, user_amount)
        t2 == transfer(usdc_token, t1.balance, SplitterAddr, treasury, platform_amount)
        x1 == [to |-> contributor, amount |-> user_amount]
        x2 == [to |-> treasury, amount |-> platform_amount]
        ev == [type |-> "ContributorRewarded", dataset_id |-> dataset_id,
               contributor |-> contributor, user_amount |-> user_amount,
               platform_amount |-> platform_amount]
    IN  IF ~t1.ok THEN [f EXCEPT !.result = "Trap"]
        ELSE IF ~t2.ok
        THEN [f EXCEPT !.result = "Trap", !.balance = t1.balance,
                       !.transfers = Append(@, x1),
                       !.steps = Append(@, "transfer_user")]
        ELSE [f EXCEPT !.balance = t2.balance,
                       !.transfers = @ \o <<x1, x2>>,
                       !.steps = @ \o <<"transfer_user", "transfer_platform",
                                        "rewarded">>,
                       !.total_user_amount = @ + user_amount,
                       !.total_platform_amount = @ + platform_amount,
                       !.emitted = Append(@, ev)]

RECURSIVE payout_loop(_, _, _, _)
payout_loop(dataset_id, contributors, i, f) ==
    IF i > Len(contributors) \/ f.result # "Ok" THEN f
    ELSE payout_loop(dataset_id, contributors, i + 1,
                     payout_step(dataset_id, contributors[i], f))

\* payout_for_dataset reading its configuration before it validates the
\* contributor list.
payout_body_config_first(dataset_id, contributors) ==
    IF usdc_token = None THEN PayoutFrame("TokenNotSet", balance)
    ELSE IF treasury = None THEN PayoutFrame("TreasuryNotSet", balance)
    ELSE IF Len(contributors) = 0 THEN PayoutFrame("InvalidContributors", balance)
    ELSE LET f == payout_loop(dataset_id, contributors, 1, PayoutFrame("Ok", balance))
             done == [type |-> "DatasetPayoutCompleted", dataset_id |-> dataset_id,
                      num_contributors |-> Len(contributors),
                      total_user_amount |-> f.total_user_amount,
                      total_platform_amount |-> f.total_platform_amount]
         IN  IF f.result = "Ok"
             THEN [f EXCEPT !.emitted = Append(@, done),
                            !.steps = Append(@, "completed")]
             ELSE f

\* payout_for_dataset going on to the transfers without its configuration.
payout_body_no_config_check(dataset_id, contributors) ==
    IF Len(contributors) = 0 THEN PayoutFrame("InvalidContributors", balance)
    ELSE LET f == payout_loop(dataset_id, contributors, 1, PayoutFrame("Ok", balance))
             done == [type |-> "DatasetPayoutCompleted", dataset_id |-> dataset_id,
                      num_contributors |-> Len(contributors),
                      total_user_amount |-> f.total_user_amount,
                      total_platform_amount |-> f.total_platform_amount]
         IN  IF f.result = "Ok"
             THEN [f EXCEPT !.emitted = Append(@, done),
                            !.steps = Append(@, "completed")]
             ELSE f

\* The body of payout_for_dataset, run on the current storage and balances.
payout_body(dataset_id, contributors) ==
    IF Len(contributors) = 0 THEN PayoutFrame("InvalidContributors", balance)
    ELSE IF usdc_token = None THEN PayoutFrame("TokenNotSet", balance)
    ELSE IF treasury = None THEN PayoutFrame("TreasuryNotSet", balance)
    ELSE IF user_amount <= 0 \/ platform_amount <= 0
    THEN PayoutFrame("InvalidAmount", balance)
    ELSE LET f == payout_loop(dataset_id, contributors, 1, PayoutFrame("Ok", balance))
             done == [type |-> "DatasetPayoutCompleted", dataset_id |-> dataset_id,
                      num_contributors |-> Len(contributors),
                      total_user_amount |-> f.total_user_amount,
                      total_platform_amount |-> f.total_platform_amount]
         IN  IF f.result = "Ok"
             THEN [f EXCEPT !.emitted = Append(@, done),
                            !.steps = Append(@, "completed")]
             ELSE f

\* One invocation of payout_for_dataset as the host runs it.
payout_call(dataset_id, contributors) ==
    HostCommit(payout_body(dataset_id, contributors), PayoutFrame("Ok", balance))

payout_for_dataset(dataset_id, contributors) ==
    LET f == payout_call(dataset_id, contributors)
    IN  /\ balance' = f.balance
        /\ events' = f.emitted
        /\ lastCall' = Call("payout_for_dataset",
                            [dataset_id |-> dataset_id, contributors |-> contributors],
                            f.result,
                            [NoInfo EXCEPT !.transfers = f.transfers,
                                           !.steps = f.steps])
        /\ UNCHANGED <<studies, datasets, purchases, revenue_splitter, study_registry,
                       usdc_token, treasury, now>>

(***************************************************************************)
(* DatasetMarketplace                                                      *)
(***************************************************************************)
\* register_dataset without the uniqueness check.
register_dataset_result_overwrite(dataset_id, study_ids, price_usdc) ==
    IF Len(dataset_id) = 0 THEN "DatasetNotFound"
    ELSE IF Len(study_ids) = 0 THEN "InvalidStudyIds"
    ELSE IF price_usdc <= 0 THEN "InvalidPrice"
    ELSE "Ok"

\* register_dataset accepting a price of zero.
register_dataset_result_zero_price_ok(dataset_id, study_ids, price_usdc) ==
    IF Len(dataset_id) = 0 THEN "DatasetNotFound"
    ELSE IF Len(study_ids) = 0 THEN "InvalidStudyIds"
    ELSE IF price_usdc < 0 THEN "InvalidPrice"
    ELSE IF dataset_id \in DOMAIN datasets THEN "DatasetAlreadyExists"
    ELSE "Ok"

\* register_dataset checking uniqueness before the arguments.
register_dataset_result_uniqueness_first(dataset_id, study_ids, price_usdc) ==
    IF dataset_id \in DOMAIN datasets THEN "DatasetAlreadyExists"
    ELSE IF Len(dataset_id) = 0 THEN "DatasetNotFound"
    ELSE IF Len(study_ids) = 0 THEN "InvalidStudyIds"
    ELSE IF price_usdc <= 0 THEN "InvalidPrice"
    ELSE "Ok"

\* register_dataset checking the price before the study list.
register_dataset_result_price_first(dataset_id, study_ids, price_usdc) ==
    IF Len(dataset_id) = 0 THEN "DatasetNotFound"
    ELSE IF price_usdc <= 0 THEN "InvalidPrice"
    ELSE IF Len(study_ids) = 0 THEN "InvalidStudyIds"
    ELSE IF dataset_id \in DOMAIN datasets THEN "DatasetAlreadyExists"
    ELSE "Ok"

\* The result of register_dataset, in the order the function decides it.
register_dataset_result(dataset_id, study_ids, price_usdc) ==
    IF Len(dataset_id) = 0 THEN "DatasetNotFound"
    ELSE IF Len(study_ids) = 0 THEN "InvalidStudyIds"
    ELSE IF price_usdc <= 0 THEN "InvalidPrice"
    ELSE IF dataset_id \in DOMAIN datasets THEN "DatasetAlreadyExists"
    ELSE "Ok"

\* The stored Dataset with its study list in reverse order.
new_dataset_studies_reversed(dataset_id, study_ids, price_usdc) ==
    [dataset_id |-> dataset_id,
     study_ids |-> [i \in 1..Len(study_ids) |-> study_ids[Len(study_ids) + 1 - i]],
     price_usdc |-> price_usdc]

\* Dataset { dataset_id, study_ids, price_usdc }
new_dataset(dataset_id, study_ids, price_usdc) ==
    [dataset_id |-> dataset_id, study_ids |-> study_ids, price_usdc |-> price_usdc]

register_dataset(dataset_id, study_ids, price_usdc) ==
    LET result == register_dataset_result(dataset_id, study_ids, price_usdc)
        dataset == new_dataset(dataset_id, study_ids, price_usdc)
        ev == [type |-> "DatasetRegistered", dataset_id |-> dataset_id,
               price_usdc |-> price_usdc, study_count |-> Len(study_ids)]
    IN  /\ datasets' = IF result = "Ok" THEN Put(datasets, dataset_id, dataset)
                       ELSE datasets
        /\ events' = IF result = "Ok" THEN <<ev>> ELSE <<>>
        /\ lastCall' = Call("register_dataset",
                            [dataset_id |-> dataset_id, study_ids |-> study_ids,
                             price_usdc |-> price_usdc],
                            result, NoInfo)
        /\ UNCHANGED <<studies, purchases, revenue_splitter, study_registry,
                       usdc_token, treasury, balance, now>>

set_revenue_splitter(addr) ==
    /\ revenue_splitter' = addr
    /\ events' = <<>>
    /\ lastCall' = Call("set_revenue_splitter", [revenue_splitter |-> addr], "Ok", NoInfo)
    /\ UNCHANGED <<studies, datasets, purchases, study_registry, usdc_token,
                   treasury, balance, now>>

set_study_registry(addr) ==
    /\ study_registry' = addr
    /\ events' = <<>>
    /\ lastCall' = Call("set_study_registry", [study_registry |-> addr], "Ok", NoInfo)
    /\ UNCHANGED <<studies, datasets, purchases, revenue_splitter, usdc_token,
                   treasury, balance, now>>

\* The marketplace's read functions; get_purchase reports a missing record
\* with DatasetNotFound.
get_dataset(dataset_id) ==
    IF dataset_id \in DOMAIN datasets
    THEN [result |-> "Ok", value |-> datasets[dataset_id]]
    ELSE [result |-> "DatasetNotFound", value |-> None]

marketplace_dataset_exists(dataset_id) == dataset_id \in DOMAIN datasets

\* The purchase key without the buyer.
purchase_key_dataset_only(dataset_id, buyer) == <<dataset_id, dataset_id>>

\* (PURCHASE_KEY, dataset_id, buyer)
purchase_key(dataset_id, buyer) == <<dataset_id, buyer>>

get_purchase(dataset_id, buyer) ==
    IF purchase_key(dataset_id, buyer) \in DOMAIN purchases
    THEN [result |-> "Ok", value |-> purchases[purchase_key(dataset_id, buyer)]]
    ELSE [result |-> "DatasetNotFound", value |-> None]

\* The payment check accepting only amounts above the base reward.
verify_payment_mock_above_reward(buyer, amount) == amount > BASE_REWARD

verify_payment_mock(buyer, amount) == amount > 0

\* timestamp.to_be_bytes(): the 8 big-endian bytes of a u64.  Ledger times
\* of the model stay below 2^31, so the four high bytes are 0.
to_be_bytes(t) ==
    [i \in 1..8 |-> IF i <= 4 THEN 0
                    ELSE IF i = 5 THEN (t \div 16777216) % 256
                    ELSE IF i = 6 THEN (t \div 65536) % 256
                    ELSE IF i = 7 THEN (t \div 256) % 256
                    ELSE t % 256]

\* b"buyer"
BuyerTag == <<98, 117, 121, 101, 114>>

\* The transaction hash without the ledger timestamp.
generate_tx_hash_no_timestamp(dataset_id, buyer, timestamp) ==
    dataset_id \o to_be_bytes(0) \o BuyerTag

\* The transaction hash with the buyer's identity appended.
generate_tx_hash_with_buyer(dataset_id, buyer, timestamp) ==
    dataset_id \o to_be_bytes(timestamp) \o BuyerTag
        \o <<IF buyer = "b1" THEN 1 ELSE 2>>

generate_tx_hash(dataset_id, buyer, timestamp) ==
    dataset_id \o to_be_bytes(timestamp) \o BuyerTag

\* Bytes -> BytesN<32>: hash_bytes[i] = study_id.get(i).unwrap_or(0)
to_hash(study_id) ==
    [i \in 1..HashLen |-> IF i <= Len(study_id) THEN study_id[i] ELSE 0]

\* env.invoke_contract(&study_registry, "get_study", [study_hash]) as a Result.
invoke_get_study(addr, study_hash) ==
    IF addr = RegistryAddr THEN get_study(study_hash)
    ELSE [result |-> "Trap", value |-> None]

\* The lookup giving up at the first study id it cannot resolve.
RECURSIVE resolve_loop_stops_at_miss(_, _, _)
resolve_loop_stops_at_miss(study_ids, i, contributors) ==
    IF i > Len(study_ids) THEN contributors
    ELSE IF Len(study_ids[i]) # HashLen THEN contributors
    ELSE LET study_result == invoke_get_study(study_registry, to_hash(study_ids[i]))
         IN  IF study_result.result = "Ok"
             THEN resolve_loop_stops_at_miss(study_ids, i + 1,
                      Append(contributors, study_result.value.contributor))
             ELSE contributors

\* The lookup collecting the contributors in reverse study-list order.
RECURSIVE resolve_loop_reversed(_, _, _)
resolve_loop_reversed(study_ids, i, contributors) ==
    IF i > Len(study_ids) THEN contributors
    ELSE IF Len(study_ids[i]) # HashLen
    THEN resolve_loop_reversed(study_ids, i + 1, contributors)
    ELSE LET study_result == invoke_get_study(study_registry, to_hash(study_ids[i]))
         IN  IF study_result.result = "Ok"
             THEN resolve_loop_reversed(study_ids, i + 1,
                      <<study_result.value.contributor>> \o contributors)
             ELSE resolve_loop_reversed(study_ids, i + 1, contributors)

RECURSIVE resolve_loop(_, _, _)
resolve_loop(study_ids, i, contributors) ==
    IF i > Len(study_ids) THEN contributors
    ELSE IF Len(study_ids[i]) # HashLen
    THEN resolve_loop(study_ids, i + 1, contributors)
    ELSE LET study_result == invoke_get_study(study_registry, to_hash(study_ids[i]))
         IN  IF study_result.result = "Ok"
             THEN resolve_loop(study_ids, i + 1,
                               Append(contributors, study_result.value.contributor))
             ELSE resolve_loop(study_ids, i + 1, contributors)

\* The lookup treating an unset registry link as "no study resolves".
get_contributors_unset_is_empty(study_ids) ==
    [result |-> "Ok",
     contributors |-> IF study_registry = None THEN <<>>
                      ELSE resolve_loop(study_ids, 1, <<>>)]

get_contributors_from_studies(study_ids) ==
    IF study_registry = None
    THEN [result |-> "StudyRegistryNotSet", contributors |-> <<>>]
    ELSE [result |-> "Ok", contributors |-> resolve_loop(study_ids, 1, <<>>)]

\* env.invoke_contract(&revenue_splitter, "payout_for_dataset", ...) as a Result.
invoke_payout(addr, dataset_id, contributors) ==
    IF addr = SplitterAddr THEN payout_call(dataset_id, contributors)
    ELSE PayoutFrame("Trap", balance)

\* A purchase frame: the result, the marketplace's purchase store, the token
\* balances, the events of this invocation, and what the invocation did.
PurchaseFrame(result) ==
    [result |-> result, purchases |-> purchases, balance |-> balance,
     emitted |-> <<>>, info |-> NoInfo]

\* purchase_settle calling the splitter whether or not a contributor was
\* resolved.
purchase_settle_always_pays(dataset, buyer) ==
    LET dataset_id == dataset.dataset_id
        tx_hash == generate_tx_hash(dataset_id, buyer, now)
        purchase == [buyer |-> buyer, dataset_id |-> dataset_id, tx_hash |-> tx_hash]
        recorded == Put(purchases, purchase_key(dataset_id, buyer), purchase)
        looked == get_contributors_from_studies(dataset.study_ids)
        contributors == looked.contributors
        f3 == [PurchaseFrame("Ok") EXCEPT !.purchases = recorded,
                   !.info.steps = <<"load", "verify_payment", "record", "resolve">>]
        f4 == [f3 EXCEPT !.info.contributors = contributors]
        purchased == [type |-> "DatasetPurchased", buyer |-> buyer,
                      dataset_id |-> dataset_id, price_usdc |-> dataset.price_usdc]
    IN
    IF looked.result # "Ok" THEN [f3 EXCEPT !.result = looked.result]
    ELSE IF revenue_splitter = None
    THEN [f4 EXCEPT !.result = "RevenueSplitterNotSet"]
    ELSE LET p == invoke_payout(revenue_splitter, dataset_id, contributors)
         IN  [f4 EXCEPT !.balance = p.balance,
                        !.emitted = Append(p.emitted, purchased),
                        !.info.steps = @ \o <<"payout", "emit">>,
                        !.info.payout = p.result,
                        !.info.transfers = p.transfers]

\* purchase_dataset after the dataset was loaded and the payment verified:
\* steps 4 to 6 (record, resolve and pay, emit).
purchase_settle(dataset, buyer) ==
    LET dataset_id == dataset.dataset_id
        timestamp == now
        tx_hash == generate_tx_hash(dataset_id, buyer, timestamp)
        purchase == [buyer |-> buyer, dataset_id |-> dataset_id, tx_hash |-> tx_hash]
        recorded == Put(purchases, purchase_key(dataset_id, buyer), purchase)
        looked == get_contributors_from_studies(dataset.study_ids)
        contributors == looked.contributors
        f3 == [PurchaseFrame("Ok") EXCEPT !.purchases = recorded,
                   !.info.steps = <<"load", "verify_payment", "record", "resolve">>]
        f4 == [f3 EXCEPT !.info.contributors = contributors]
        purchased == [type |-> "DatasetPurchased", buyer |-> buyer,
                      dataset_id |-> dataset_id, price_usdc |-> dataset.price_usdc]
    IN
    IF looked.result # "Ok" THEN [f3 EXCEPT !.result = looked.result]
    ELSE IF Len(contributors) > 0
    THEN IF revenue_splitter = None
         THEN [f4 EXCEPT !.result = "RevenueSplitterNotSet"]
         ELSE LET p == invoke_payout(revenue_splitter, dataset_id, contributors)
              IN  \* let _: Result<(), ()> = ...: the payout's result is dropped
                  [f4 EXCEPT !.balance = p.balance,
                             !.emitted = Append(p.emitted, purchased),
                             !.info.steps = @ \o <<"payout", "emit">>,
                             !.info.payout = p.result,
                             !.info.transfers = p.transfers]
    ELSE [f4 EXCEPT !.emitted = <<purchased>>,
                    !.info.steps = Append(@, "emit")]

\* purchase_dataset resolving the links before it loads the dataset.
purchase_body_links_first(dataset_id, buyer) ==
    IF study_registry = None
    THEN [PurchaseFrame("StudyRegistryNotSet") EXCEPT !.info.steps = <<"resolve">>]
    ELSE IF dataset_id \notin DOMAIN datasets
    THEN [PurchaseFrame("DatasetNotFound") EXCEPT !.info.steps = <<"resolve", "load">>]
    ELSE purchase_settle(datasets[dataset_id], buyer)

\* The body of purchase_dataset, run on the current storage.
purchase_body(dataset_id, buyer) ==
    IF dataset_id \notin DOMAIN datasets
    THEN [PurchaseFrame("DatasetNotFound") EXCEPT !.info.steps = <<"load">>]
    ELSE IF ~verify_payment_mock(buyer, datasets[dataset_id].price_usdc)
    THEN [PurchaseFrame("PaymentFailed") EXCEPT !.info.steps = <<"load", "verify_payment">>]
    ELSE purchase_settle(datasets[dataset_id], buyer)

\* purchase_dataset with the writes of a failed invocation kept.
purchase_call_no_rollback(dataset_id, buyer) == purchase_body(dataset_id, buyer)

\* One invocation of purchase_dataset as the host runs it.
purchase_call(dataset_id, buyer) ==
    LET f == purchase_body(dataset_id, buyer)
    IN  HostCommit(f, [PurchaseFrame("Ok") EXCEPT !.info = f.info])

\* purchase_dataset whose study lookup creates a record for a hash that has
\* none (get-or-create instead of get).
purchase_dataset_get_or_create(dataset_id, buyer) ==
    LET f == purchase_call(dataset_id, buyer)
        ids == IF dataset_id \in DOMAIN datasets
               THEN datasets[dataset_id].study_ids ELSE <<>>
        missing == IF f.result = "Ok" /\ study_registry = RegistryAddr
                   THEN {to_hash(ids[i]) : i \in {j \in 1..Len(ids) :
                                                     Len(ids[j]) = HashLen}}
                           \ DOMAIN studies
                   ELSE {}
    IN  /\ studies' = [h \in (DOMAIN studies) \cup missing |->
                          IF h \in DOMAIN studies THEN studies[h]
                          ELSE [dataset_hash |-> h, contributor |-> buyer,
                                timestamp |-> now]]
        /\ purchases' = f.purchases
        /\ balance' = f.balance
        /\ events' = f.emitted
        /\ lastCall' = Call("purchase_dataset",
                            [dataset_id |-> dataset_id, buyer |-> buyer],
                            f.result, f.info)
        /\ UNCHANGED <<datasets, revenue_splitter, study_registry,
                       usdc_token, treasury, now>>

purchase_dataset(dataset_id, buyer) ==
    LET f == purchase_call(dataset_id, buyer)
    IN  /\ purchases' = f.purchases
        /\ balance' = f.balance
        /\ events' = f.emitted
        /\ lastCall' = Call("purchase_dataset",
                            [dataset_id |-> dataset_id, buyer |-> buyer],
                            f.result, f.info)
        /\ UNCHANGED <<studies, datasets, revenue_splitter, study_registry,
                       usdc_token, treasury, now>>

(***************************************************************************)
(* purchase_dataset statement by statement.  The host runs one invocation  *)
(* at a time and publishes its writes and events when it returns.  While   *)
(* an invocation runs, lastCall has the result "Running", the statements   *)
(* executed so far (info.steps), the statements still to execute           *)
(* (pending) and the invocation's frame; as no other invocation runs in    *)
(* between, both are determined by the storage the invocation started on.  *)
(* The lookup loop takes one step for the link read and one per study id,  *)
(* the payout one step for the call and one per transfer.                  *)
(***************************************************************************)
InFlight(c) == c.result = "Running"
HostIdle == ~InFlight(lastCall)

Repeat(x, n) == [i \in 1..n |-> x]

RECURSIVE Flatten(_)
Flatten(ss) == IF ss = <<>> THEN <<>> ELSE Head(ss) \o Flatten(Tail(ss))

\* The statements one invocation of purchase_dataset executes, in order.
purchase_trace(dataset_id, buyer) ==
    LET f == purchase_body(dataset_id, buyer)
        ids == IF dataset_id \in DOMAIN datasets
               THEN datasets[dataset_id].study_ids ELSE <<>>
        times(step) ==
            IF step = "resolve"
            THEN IF f.result = "StudyRegistryNotSet" THEN 1 ELSE 1 + Len(ids)
            ELSE IF step = "payout" THEN 1 + Len(f.info.transfers)
            ELSE 1
    IN  Flatten([i \in 1..Len(f.info.steps) |->
                    Repeat(f.info.steps[i], times(f.info.steps[i]))])

purchase_begin(dataset_id, buyer) ==
    /\ HostIdle
    /\ events' = <<>>
    /\ lastCall' = [op |-> "purchase_dataset",
                    args |-> [dataset_id |-> dataset_id, buyer |-> buyer],
                    result |-> "Running", info |-> NoInfo,
                    pending |-> purchase_trace(dataset_id, buyer),
                    frame |-> purchase_call(dataset_id, buyer)]
    /\ UNCHANGED <<studies, datasets, purchases, revenue_splitter, study_registry,
                   usdc_token, treasury, balance, now>>

\* The lookup loop starting over when it reaches the end of the study list.
purchase_step_lookup_restarts ==
    /\ InFlight(lastCall)
    /\ lastCall.pending # <<>>
    /\ lastCall' =
          LET done == lastCall.info.steps
              next == Head(lastCall.pending)
          IN  IF next # "resolve" /\ done # <<>> /\ done[Len(done)] = "resolve"
              THEN [lastCall EXCEPT
                      !.info.steps = SelectSeq(done, LAMBDA x : x # "resolve"),
                      !.pending = SelectSeq(done, LAMBDA x : x = "resolve") \o @]
              ELSE [lastCall EXCEPT !.info.steps = Append(@, next),
                                    !.pending = Tail(@)]
    /\ UNCHANGED <<studies, datasets, purchases, revenue_splitter, study_registry,
                   usdc_token, treasury, balance, events, now>>

\* The running invocation executes its next statement.
purchase_step ==
    /\ InFlight(lastCall)
    /\ lastCall.pending # <<>>
    /\ lastCall' = [lastCall EXCEPT !.info.steps = Append(@, Head(lastCall.pending)),
                                    !.pending = Tail(@)]
    /\ UNCHANGED <<studies, datasets, purchases, revenue_splitter, study_registry,
                   usdc_token, treasury, balance, events, now>>

\* The running invocation returns: the host commits it or rolls it back.
purchase_end ==
    /\ InFlight(lastCall)
    /\ lastCall.pending = <<>>
    /\ purchases' = lastCall.frame.purchases
    /\ balance' = lastCall.frame.balance
    /\ events' = lastCall.frame.emitted
    /\ lastCall' = Call("purchase_dataset", lastCall.args,
                        lastCall.frame.result, lastCall.frame.info)
    /\ UNCHANGED <<studies, datasets, revenue_splitter, study_registry,
                   usdc_token, treasury, now>>

(***************************************************************************)
(* Invocations of the read functions.  Each one reads instance storage     *)
(* with has or get, writes nothing and publishes nothing; lastCall keeps   *)
(* what it returned ("true" / "false" for the two bool functions).         *)
(***************************************************************************)
ReadOps == {"study_registry::dataset_exists", "get_study", "get_dataset",
            "dataset_marketplace::dataset_exists", "get_purchase",
            "get_usdc_token", "get_treasury"}

Bool(b) == IF b THEN "true" ELSE "false"

read_study_exists(dataset_hash) ==
    /\ events' = <<>>
    /\ lastCall' = Call("study_registry::dataset_exists",
                        [dataset_hash |-> dataset_hash],
                        Bool(dataset_exists(dataset_hash)), NoInfo)
    /\ UNCHANGED <<studies, datasets, purchases, revenue_splitter, study_registry,
                   usdc_token, treasury, balance, now>>

read_get_study(dataset_hash) ==
    /\ events' = <<>>
    /\ lastCall' = Call("get_study", [dataset_hash |-> dataset_hash],
                        get_study(dataset_hash).result, NoInfo)
    /\ UNCHANGED <<studies, datasets, purchases, revenue_splitter, study_registry,
                   usdc_token, treasury, balance, now>>

read_get_dataset(dataset_id) ==
    /\ events' = <<>>
    /\ lastCall' = Call("get_dataset", [dataset_id |-> dataset_id],
                        get_dataset(dataset_id).result, NoInfo)
    /\ UNCHANGED <<studies, datasets, purchases, revenue_splitter, study_registry,
                   usdc_token, treasury, balance, now>>

read_dataset_exists(dataset_id) ==
    /\ events' = <<>>
    /\ lastCall' = Call("dataset_marketplace::dataset_exists",
                        [dataset_id |-> dataset_id],
                        Bool(marketplace_dataset_exists(dataset_id)), NoInfo)
    /\ UNCHANGED <<studies, datasets, purchases, revenue_splitter, study_registry,
                   usdc_token, treasury, balance, now>>

\* get_purchase taking the record out of storage instead of reading it.
read_get_purchase_taking(dataset_id, buyer) ==
    /\ events' = <<>>
    /\ lastCall' = Call("get_purchase", [dataset_id |-> dataset_id, buyer |-> buyer],
                        get_purchase(dataset_id, buyer).result, NoInfo)
    /\ purchases' = [k \in (DOMAIN purchases) \ {purchase_key(dataset_id, buyer)}
                       |-> purchases[k]]
    /\ UNCHANGED <<studies, datasets, revenue_splitter, study_registry,
                   usdc_token, treasury, balance, now>>

read_get_purchase(dataset_id, buyer) ==
    /\ events' = <<>>
    /\ lastCall' = Call("get_purchase", [dataset_id |-> dataset_id, buyer |-> buyer],
                        get_purchase(dataset_id, buyer).result, NoInfo)
    /\ UNCHANGED <<studies, datasets, purchases, revenue_splitter, study_registry,
                   usdc_token, treasury, balance, now>>

read_get_usdc_token ==
    /\ events' = <<>>
    /\ lastCall' = Call("get_usdc_token", <<>>, get_usdc_token.result, NoInfo)
    /\ UNCHANGED <<studies, datasets, purchases, revenue_splitter, study_registry,
                   usdc_token, treasury, balance, now>>

read_get_treasury ==
    /\ events' = <<>>
    /\ lastCall' = Call("get_treasury", <<>>, get_treasury.result, NoInfo)
    /\ UNCHANGED <<studies, datasets, purchases, revenue_splitter, study_registry,
                   usdc_token, treasury, balance, now>>

(***************************************************************************)
(* Environment: the token admin mints USDC to the splitter; the ledger     *)
(* clock advances.                                                         *)
(***************************************************************************)
FundChoices == {BASE_REWARD, user_amount}

RECURSIVE Sum(_, _)
Sum(f, S) == IF S = {} THEN 0
             ELSE LET x == CHOOSE y \in S : TRUE IN f[x] + Sum(f, S \ {x})
TotalSupply == Sum(balance, Holders)

fund_usdc(amount) ==
    /\ TotalSupply + amount <= MaxFunds * BASE_REWARD
    /\ balance' = [balance EXCEPT ![SplitterAddr] = @ + amount]
    /\ events' = <<>>
    /\ lastCall' = Call("fund_usdc", [amount |-> amount], "Ok", NoInfo)
    /\ UNCHANGED <<studies, datasets, purchases, revenue_splitter, study_registry,
                   usdc_token, treasury, now>>

Tick ==
    /\ now < MaxTime
    /\ now' = now + 1
    /\ events' = <<>>
    /\ lastCall' = Call("tick", <<>>, "Ok", NoInfo)
    /\ UNCHANGED <<studies, datasets, purchases, revenue_splitter, study_registry,
                   usdc_token, treasury, balance>>

(***************************************************************************)
(* Specifications.  Spec is the whole system; SpecRegistry, SpecSplitter   *)
(* and SpecCatalog exercise one contract each over all of its inputs.      *)
(***************************************************************************)
ListsOk == {<<H1, H2>>, <<ShortId, H2>>}
PricesOk == {200000000}
OwnerOf(h) == IF h = H1 THEN "c1" ELSE "c2"

Next ==
    \/ \E h \in Hashes : register_study(h, <<7>>, <<7>>, OwnerOf(h))
    \/ \E ids \in ListsOk, price \in PricesOk : register_dataset(<<1>>, ids, price)
    \/ \E addr \in LinkChoices : set_revenue_splitter(addr)
    \/ \E addr \in LinkChoices : set_study_registry(addr)
    \/ init(TokenAddr, TreasuryAddr)
    \/ fund_usdc(BASE_REWARD)
    \/ \E id \in {<<1>>, <<2>>}, buyer \in Buyers : purchase_dataset(id, buyer)
    \/ payout_for_dataset(<<1>>, <<"c1">>)

Spec == Init /\ [][Next]_vars

NextRegistry ==
    \/ \E h \in Hashes, att \in Proofs, zk \in Proofs, c \in Contributors :
          register_study(h, att, zk, c)
    \/ Tick

SpecRegistry == Init /\ [][NextRegistry]_vars

NextSplitter ==
    \/ \E token \in TokenChoices, tre \in TreasuryChoices : init(token, tre)
    \/ \E id \in DatasetIds, cs \in ContributorLists : payout_for_dataset(id, cs)
    \/ \E amount \in FundChoices : fund_usdc(amount)

SpecSplitter == Init /\ [][NextSplitter]_vars

NextCatalog ==
    \/ \E id \in DatasetIds, ids \in StudyLists, price \in Prices :
          register_dataset(id, ids, price)
    \/ \E addr \in LinkChoices : set_revenue_splitter(addr)
    \/ \E addr \in LinkChoices : set_study_registry(addr)

SpecCatalog == Init /\ [][NextCatalog]_vars

\* The whole system with the ledger clock: one dataset, one buyer.
NextLedger ==
    \/ \E h \in Hashes, c \in Contributors : register_study(h, <<7>>, <<7>>, c)
    \/ \E price \in PricesOk : register_dataset(<<1>>, <<H1, H2>>, price)
    \/ set_revenue_splitter(SplitterAddr)
    \/ set_study_registry(RegistryAddr)
    \/ init(TokenAddr, TreasuryAddr)
    \/ fund_usdc(BASE_REWARD)
    \/ purchase_dataset(<<1>>, "b1")
    \/ Tick

SpecLedger == Init /\ [][NextLedger]_vars

\* Contributor resolution: one dataset over study lists that are partly
\* registered, repeated, out of hash order or of the wrong length.
ResolveLists == {<<H1, H2>>, <<H2, H1>>, <<ShortId, H2>>, <<H1, H1>>}

NextResolve ==
    \/ \E h \in Hashes : register_study(h, <<7>>, <<7>>, OwnerOf(h))
    \/ \E ids \in ResolveLists, price \in PricesOk : register_dataset(<<1>>, ids, price)
    \/ \E addr \in LinkChoices : set_study_registry(addr)
    \/ set_revenue_splitter(SplitterAddr)
    \/ init(TokenAddr, TreasuryAddr)
    \/ fund_usdc(BASE_REWARD)
    \/ purchase_dataset(<<1>>, "b1")

SpecResolve == Init /\ [][NextResolve]_vars

\* The whole system with its read functions: one dataset, two buyers.
NextReads ==
    \/ \E h \in Hashes : register_study(h, <<7>>, <<7>>, OwnerOf(h))
    \/ \E price \in PricesOk : register_dataset(<<1>>, <<H1, H2>>, price)
    \/ set_revenue_splitter(SplitterAddr)
    \/ set_study_registry(RegistryAddr)
    \/ init(TokenAddr, TreasuryAddr)
    \/ fund_usdc(BASE_REWARD)
    \/ \E buyer \in Buyers : purchase_dataset(<<1>>, buyer)
    \/ \E h \in Hashes : read_study_exists(h)
    \/ \E h \in Hashes : read_get_study(h)
    \/ \E id \in {<<1>>, <<2>>} : read_get_dataset(id)
    \/ \E id \in {<<1>>, <<2>>} : read_dataset_exists(id)
    \/ \E id \in {<<1>>, <<2>>}, buyer \in Buyers : read_get_purchase(id, buyer)
    \/ read_get_usdc_token
    \/ read_get_treasury

SpecReads == Init /\ [][NextReads]_vars

\* The whole system with purchase_dataset run statement by statement; no
\* other invocation starts while one is running.
NextSteps ==
    \/ HostIdle /\ \E h \in Hashes : register_study(h, <<7>>, <<7>>, OwnerOf(h))
    \/ HostIdle /\ \E ids \in ListsOk, price \in PricesOk :
                      register_dataset(<<1>>, ids, price)
    \/ HostIdle /\ set_revenue_splitter(SplitterAddr)
    \/ HostIdle /\ set_study_registry(RegistryAddr)
    \/ HostIdle /\ init(TokenAddr, TreasuryAddr)
    \/ HostIdle /\ fund_usdc(BASE_REWARD)
    \/ \E id \in {<<1>>, <<2>>} : purchase_begin(id, "b1")
    \/ purchase_step
    \/ purchase_end

SpecSteps == Init /\ [][NextSteps]_vars

\* The host runs an invocation it has started to its end.
SpecStepsFair == SpecSteps /\ WF_vars(purchase_step) /\ WF_vars(purchase_end)

\* Registration over every price, and purchases of what was registered.
NextPayment ==
    \/ \E id \in {<<1>>, <<2>>}, ids \in {<<>>, <<H1>>}, price \in Prices :
          register_dataset(id, ids, price)
    \/ set_study_registry(RegistryAddr)
    \/ \E id \in {<<1>>, <<2>>}, buyer \in Buyers : purchase_dataset(id, buyer)

SpecPayment == Init /\ [][NextPayment]_vars

\* Purchases of two datasets by two buyers while the ledger clock advances;
\* no study is registered, so no purchase calls the splitter.
NextTxHash ==
    \/ \E id \in {<<1>>, <<2>>}, price \in PricesOk : register_dataset(id, <<H1>>, price)
    \/ set_study_registry(RegistryAddr)
    \/ \E id \in {<<1>>, <<2>>}, buyer \in Buyers : purchase_dataset(id, buyer)
    \/ Tick

SpecTxHash == Init /\ [][NextTxHash]_vars

(***************************************************************************)
(* Properties                                                              *)
(***************************************************************************)
IsPurchase(c) == c.op = "purchase_dataset"
IsPayout(c) == c.op = "payout_for_dataset"
EventsOfType(t) == {i \in 1..Len(events) : events[i].type = t}

\* C1: if the payout call made by purchase_dataset fails, the purchase as a
\* whole fails, no new PurchaseRecord is visible afterwards and no
\* DatasetPurchased event is emitted.
C1_FailedPayoutAbortsPurchase ==
    [][(IsPurchase(lastCall') /\ revenue_splitter = SplitterAddr
          /\ lastCall'.info.payout \notin {"none", "Ok"})
          => /\ lastCall'.result # "Ok"
             /\ purchases' = purchases
             /\ EventsOfType("DatasetPurchased")' = {}]_vars

\* C2: completed payouts and recorded purchases that resolved at least one
\* contributor correspond one to one: an invocation publishes
\* DatasetPayoutCompleted only as a successful purchase whose record is
\* stored, and a successful purchase that resolved a contributor publishes
\* DatasetPayoutCompleted for its dataset.
C2_PayoutIffPurchase ==
    /\ \A i \in EventsOfType("DatasetPayoutCompleted") :
          /\ IsPurchase(lastCall) /\ lastCall.result = "Ok"
          /\ <<events[i].dataset_id, lastCall.args.buyer>> \in DOMAIN purchases
    /\ (IsPurchase(lastCall) /\ lastCall.result = "Ok"
          /\ Len(lastCall.info.contributors) > 0)
          => \E i \in EventsOfType("DatasetPayoutCompleted") :
                events[i].dataset_id = lastCall.args.dataset_id

\* C3: register_study on a hash that already has a record fails with
\* DuplicateStudy whatever the other arguments are, and the stored record
\* (contributor, timestamp) is unchanged.
C3_DuplicateStudyRejected ==
    [][(lastCall'.op = "register_study"
          /\ lastCall'.args.dataset_hash \in DOMAIN studies)
          => /\ lastCall'.result = "DuplicateStudy"
             /\ studies' = studies
             /\ events' = <<>>]_vars

\* A duplicate registration with another contributor, an empty attestation
\* and an empty proof, at a later ledger time, was rejected.
C3_Witness ==
    /\ lastCall.op = "register_study" /\ lastCall.result = "DuplicateStudy"
    /\ lastCall.args.attestation = <<>> /\ lastCall.args.zk_proof = <<>>
    /\ studies[lastCall.args.dataset_hash].contributor # lastCall.args.contributor
    /\ studies[lastCall.args.dataset_hash].timestamp < now

\* C4 as stated: register_dataset on a registered id fails with
\* DatasetAlreadyExists whatever the other arguments are, and the stored
\* Dataset is unchanged.
C4_DuplicateAlwaysAlreadyExists ==
    [][(lastCall'.op = "register_dataset"
          /\ lastCall'.args.dataset_id \in DOMAIN datasets)
          => /\ lastCall'.result = "DatasetAlreadyExists"
             /\ datasets' = datasets]_vars

\* C4 amended: register_dataset on a registered id always fails and leaves
\* the stored Dataset unchanged; the error is DatasetAlreadyExists when the
\* study list is non-empty and the price positive, and otherwise the error
\* of the argument check that comes first (InvalidStudyIds, InvalidPrice).
C4_DuplicateDatasetRejected ==
    [][(lastCall'.op = "register_dataset"
          /\ lastCall'.args.dataset_id \in DOMAIN datasets)
          => /\ lastCall'.result =
                   IF Len(lastCall'.args.study_ids) = 0 THEN "InvalidStudyIds"
                   ELSE IF lastCall'.args.price_usdc <= 0 THEN "InvalidPrice"
                   ELSE "DatasetAlreadyExists"
             /\ datasets' = datasets
             /\ events' = <<>>]_vars

\* A second registration of a stored id, with another study list and
\* another price, was rejected with DatasetAlreadyExists.
C4_Witness ==
    /\ lastCall.op = "register_dataset"
    /\ lastCall.result = "DatasetAlreadyExists"
    /\ datasets[lastCall.args.dataset_id].study_ids # lastCall.args.study_ids
    /\ datasets[lastCall.args.dataset_id].price_usdc # lastCall.args.price_usdc

\* C5: every contributor of a payout gets user_amount = 8_5000000 and the
\* treasury platform_amount = 1_5000000 for it, the two adding up to the
\* base reward of 10_0000000 exactly.
C5_SplitAmounts ==
    /\ \A i \in EventsOfType("ContributorRewarded") :
          /\ events[i].user_amount = 85000000
          /\ events[i].platform_amount = 15000000
          /\ events[i].user_amount + events[i].platform_amount = 100000000
    /\ \A k \in 1..Len(lastCall.info.transfers) :
          lastCall.info.transfers[k].amount = IF k % 2 = 1 THEN 85000000 ELSE 15000000

\* A payout over two contributors completed.
C5_Witness ==
    /\ IsPayout(lastCall) /\ lastCall.result = "Ok"
    /\ Cardinality(EventsOfType("ContributorRewarded")) = 2
    /\ Len(lastCall.info.transfers) = 4

\* C6: a successful payout over N contributors ends with
\* DatasetPayoutCompleted{num_contributors = N, total_user_amount =
\* N * 8_5000000, total_platform_amount = N * 1_5000000}, the totals adding
\* up to N * 10_0000000.
C6_PayoutTotals ==
    (IsPayout(lastCall) /\ lastCall.result = "Ok")
       => LET n == Len(lastCall.args.contributors)
              e == events[Len(events)]
          IN  /\ Len(events) = n + 1
              /\ e.type = "DatasetPayoutCompleted"
              /\ e.num_contributors = n
              /\ e.total_user_amount = n * 85000000
              /\ e.total_platform_amount = n * 15000000
              /\ e.total_user_amount + e.total_platform_amount = n * 100000000

\* The aggregate event of a payout over two contributors.
C6_Witness ==
    /\ IsPayout(lastCall) /\ lastCall.result = "Ok"
    /\ Len(lastCall.args.contributors) = 2
    /\ events[Len(events)].type = "DatasetPayoutCompleted"

\* C7: payout_for_dataset with an empty contributor list fails with
\* InvalidContributors in every state, initialised or not, makes no
\* transfer and emits no event.
C7_EmptyContributorsRejected ==
    [][(IsPayout(lastCall') /\ Len(lastCall'.args.contributors) = 0)
          => /\ lastCall'.result = "InvalidContributors"
             /\ balance' = balance
             /\ lastCall'.info.transfers = <<>>
             /\ events' = <<>>]_vars

\* An empty list was rejected on a splitter that was never initialised.
C7_Witness ==
    /\ IsPayout(lastCall) /\ lastCall.args.contributors = <<>>
    /\ lastCall.result = "InvalidContributors"
    /\ usdc_token = None /\ treasury = None

\* C8: purchase_dataset on an id that was never registered fails with
\* DatasetNotFound whatever the links are, and changes no store, no
\* balance and emits no event.
C8_MissingDatasetRejected ==
    [][(IsPurchase(lastCall') /\ lastCall'.args.dataset_id \notin DOMAIN datasets)
          => /\ lastCall'.result = "DatasetNotFound"
             /\ UNCHANGED <<studies, datasets, purchases, revenue_splitter,
                            study_registry, usdc_token, treasury, balance>>
             /\ events' = <<>>]_vars

\* The purchase of an unregistered id was rejected while another dataset is
\* registered, the splitter link is set and the registry link is not.
C8_Witness ==
    /\ IsPurchase(lastCall) /\ lastCall.result = "DatasetNotFound"
    /\ lastCall.args.dataset_id \notin DOMAIN datasets
    /\ DOMAIN datasets # {}
    /\ revenue_splitter # None /\ study_registry = None

\* C9: purchase_dataset on a registered dataset fails with
\* RevenueSplitterNotSet whenever the revenue-splitter link is unset,
\* whatever the study-registry link and the resolved contributors, and
\* creates no PurchaseRecord.
C9_UnsetSplitterRejected ==
    [][(IsPurchase(lastCall') /\ lastCall'.args.dataset_id \in DOMAIN datasets
          /\ revenue_splitter = None)
          => /\ lastCall'.result = "RevenueSplitterNotSet"
             /\ purchases' = purchases]_vars

AllStudiesRegistered(d) ==
    \A i \in 1..Len(datasets[d].study_ids) :
        /\ Len(datasets[d].study_ids[i]) = HashLen
        /\ datasets[d].study_ids[i] \in DOMAIN studies

\* The events of a fully paid purchase of d by b: one ContributorRewarded
\* per study in list order, the aggregate event, then DatasetPurchased.
PaidPurchaseEvents(d, b) ==
    LET ids == datasets[d].study_ids
        k == Len(ids)
    IN  [i \in 1..(k + 2) |->
           IF i <= k
           THEN [type |-> "ContributorRewarded", dataset_id |-> d,
                 contributor |-> studies[ids[i]].contributor,
                 user_amount |-> 85000000, platform_amount |-> 15000000]
           ELSE IF i = k + 1
           THEN [type |-> "DatasetPayoutCompleted", dataset_id |-> d,
                 num_contributors |-> k,
                 total_user_amount |-> k * 85000000,
                 total_platform_amount |-> k * 15000000]
           ELSE [type |-> "DatasetPurchased", buyer |-> b, dataset_id |-> d,
                 price_usdc |-> datasets[d].price_usdc]]

\* C11 as stated: with both links set and the splitter initialised, the
\* purchase of a dataset whose k study hashes are all registered succeeds,
\* makes get_purchase succeed and publishes k ContributorRewarded events in
\* study-list order, one DatasetPayoutCompleted and one DatasetPurchased.
C11_ConfiguredPurchasePaysAll ==
    [][\A d \in DatasetIds, b \in Buyers :
         (/\ IsPurchase(lastCall')
          /\ lastCall'.args = [dataset_id |-> d, buyer |-> b]
          /\ study_registry = RegistryAddr /\ revenue_splitter = SplitterAddr
          /\ usdc_token # None /\ treasury # None
          /\ marketplace_dataset_exists(d) /\ AllStudiesRegistered(d))
         => /\ lastCall'.result = "Ok"
            /\ get_purchase(d, b)'.result = "Ok"
            /\ events' = PaidPurchaseEvents(d, b)]_vars

\* C11 amended: the same, provided the splitter was initialised with the
\* USDC token contract and holds at least k * 10_0000000 of it.
C11_FundedPurchasePaysAll ==
    [][\A d \in DatasetIds, b \in Buyers :
         (/\ IsPurchase(lastCall')
          /\ lastCall'.args = [dataset_id |-> d, buyer |-> b]
          /\ study_registry = RegistryAddr /\ revenue_splitter = SplitterAddr
          /\ usdc_token = TokenAddr /\ treasury # None
          /\ marketplace_dataset_exists(d) /\ AllStudiesRegistered(d)
          /\ balance[SplitterAddr] >= Len(datasets[d].study_ids) * BASE_REWARD)
         => /\ lastCall'.result = "Ok"
            /\ get_purchase(d, b)'.result = "Ok"
            /\ events' = PaidPurchaseEvents(d, b)]_vars

\* A purchase over two registered studies of two contributors was paid out:
\* four events, the record readable, the splitter's balance spent.
C11_Witness ==
    /\ IsPurchase(lastCall) /\ lastCall.result = "Ok"
    /\ lastCall.info.contributors = <<"c1", "c2">>
    /\ lastCall.info.payout = "Ok"
    /\ Len(events) = 4
    /\ get_purchase(lastCall.args.dataset_id, lastCall.args.buyer).result = "Ok"
    /\ balance["c1"] = 85000000 /\ balance["c2"] = 85000000
    /\ balance[TreasuryAddr] = 30000000

\* A buyer who never purchases.
Stranger == "b3"

\* The purchase of d can be settled: the registry link is set and, when a
\* study of d resolves to a contributor, the splitter link is set and the
\* splitter is initialised and holds 10_0000000 per resolved contributor.
CanSettle(d) ==
    LET cs == get_contributors_from_studies(datasets[d].study_ids).contributors
    IN  /\ study_registry = RegistryAddr
        /\ Len(cs) > 0 => /\ revenue_splitter = SplitterAddr
                          /\ usdc_token = TokenAddr /\ treasury # None
                          /\ balance[SplitterAddr] >= Len(cs) * BASE_REWARD

C13_StudyRecordImmutable ==
    [][/\ \A h \in Hashes :
            dataset_exists(h) => /\ dataset_exists(h)'
                                 /\ get_study(h)' = get_study(h)
       /\ \A h \in Hashes, c \in Contributors :
            (/\ lastCall'.op = "register_study" /\ lastCall'.result = "Ok"
             /\ lastCall'.args.dataset_hash = h /\ lastCall'.args.contributor = c)
            => /\ dataset_exists(h)'
               /\ get_study(h)' = [result |-> "Ok",
                                   value |-> [dataset_hash |-> h, contributor |-> c,
                                              timestamp |-> now]]]_vars

\* A study registered by c1 at time 0 is still read back as (H1, c1, 0)
\* after the clock advanced, a purchase was recorded, and another
\* contributor tried to register the same hash.
C13_Witness ==
    /\ get_study(H1) = [result |-> "Ok",
                        value |-> [dataset_hash |-> H1, contributor |-> "c1",
                                   timestamp |-> 0]]
    /\ now > 0
    /\ DOMAIN purchases # {}
    /\ lastCall.op = "register_study" /\ lastCall.args.dataset_hash = H1
    /\ lastCall.args.contributor = "c2"

\* C14: a successful register_dataset(id, studies, price) makes
\* dataset_exists(id) true and get_dataset(id) return (id, studies in the
\* same order, price), and no later operation (purchases, link changes,
\* further registrations) updates or deletes a Dataset.
C14_DatasetImmutable ==
    [][/\ \A d \in DatasetIds :
            marketplace_dataset_exists(d)
               => /\ marketplace_dataset_exists(d)'
                  /\ get_dataset(d)' = get_dataset(d)
       /\ \A d \in DatasetIds, ids \in StudyLists, price \in Prices :
            (/\ lastCall'.op = "register_dataset" /\ lastCall'.result = "Ok"
             /\ lastCall'.args = [dataset_id |-> d, study_ids |-> ids,
                                  price_usdc |-> price])
            => /\ marketplace_dataset_exists(d)'
               /\ get_dataset(d)' = [result |-> "Ok",
                                     value |-> [dataset_id |-> d, study_ids |-> ids,
                                                price_usdc |-> price]]]_vars

\* A dataset registered with the list (ShortId, H2) is read back unchanged
\* after it was purchased, the splitter link was pointed elsewhere, and a
\* registration of the same id with another list was attempted.
C14_Witness ==
    /\ get_dataset(<<1>>) = [result |-> "Ok",
                             value |-> [dataset_id |-> <<1>>,
                                        study_ids |-> <<ShortId, H2>>,
                                        price_usdc |-> 200000000]]
    /\ DOMAIN purchases # {}
    /\ revenue_splitter = RegistryAddr
    /\ lastCall.op = "register_dataset" /\ lastCall.args.study_ids = <<H1, H2>>

\* The number a big-endian byte sequence stands for.
RECURSIVE BigEndian(_)
BigEndian(bytes) ==
    IF bytes = <<>> THEN 0
    ELSE BigEndian(SubSeq(bytes, 1, Len(bytes) - 1)) * 256 + bytes[Len(bytes)]

C16_PurchaseRecordImmutable ==
    [][\A d \in DatasetIds, b \in Buyers :
         get_purchase(d, b).result = "Ok"
            => get_purchase(d, b)' = get_purchase(d, b)]_vars

\* C17: a payout in which a transfer fails (the token contract rejects it,
\* or the splitter's balance runs out at some contributor) returns the
\* typed error TransferFailed, and balances and events are as before.
C17_TransferFailureTyped ==
    [][(/\ IsPayout(lastCall')
        /\ Len(lastCall'.args.contributors) > 0
        /\ usdc_token # None /\ treasury # None
        /\ \/ usdc_token # TokenAddr
           \/ balance[SplitterAddr] < Len(lastCall'.args.contributors) * BASE_REWARD)
         => /\ lastCall'.result = "TransferFailed"
            /\ balance' = balance
            /\ events' = <<>>]_vars

StepAt(steps, name) ==
    IF \E i \in 1..Len(steps) : steps[i] = name
    THEN CHOOSE i \in 1..Len(steps) : steps[i] = name
    ELSE 0

\* C19: a successful purchase takes its steps in the order validate,
\* resolve contributors, pay out, record, emit: the record is written after
\* the resolution and, when contributors were resolved, after a payout
\* that completed.
C19_RecordAfterPayout ==
    (IsPurchase(lastCall) /\ lastCall.result = "Ok")
       => LET steps == lastCall.info.steps
          IN  /\ StepAt(steps, "resolve") < StepAt(steps, "record")
              /\ StepAt(steps, "record") < StepAt(steps, "emit")
              /\ Len(lastCall.info.contributors) > 0
                    => /\ StepAt(steps, "payout") > 0
                       /\ StepAt(steps, "payout") < StepAt(steps, "record")
                       /\ lastCall.info.payout = "Ok"

\* C20: register_dataset with an empty study list and a non-empty,
\* unregistered id fails with InvalidStudyIds, stores no Dataset under the
\* id and publishes no DatasetRegistered event.
C20_EmptyStudyListRejected ==
    [][\A d \in DatasetIds :
         (/\ lastCall'.op = "register_dataset"
          /\ lastCall'.args.dataset_id = d /\ Len(d) > 0
          /\ ~marketplace_dataset_exists(d)
          /\ Len(lastCall'.args.study_ids) = 0)
         => /\ lastCall'.result = "InvalidStudyIds"
            /\ ~marketplace_dataset_exists(d)'
            /\ get_dataset(d)'.result = "DatasetNotFound"
            /\ EventsOfType("DatasetRegistered")' = {}]_vars

\* An empty study list with a price of 0 was rejected with InvalidStudyIds
\* for an unregistered id while another dataset is registered.
C20_Witness ==
    /\ lastCall.op = "register_dataset" /\ lastCall.result = "InvalidStudyIds"
    /\ lastCall.args.study_ids = <<>> /\ lastCall.args.price_usdc = 0
    /\ ~marketplace_dataset_exists(lastCall.args.dataset_id)
    /\ DOMAIN datasets # {}

\* C21: register_dataset with a price <= 0, a non-empty id and a non-empty
\* study list fails with InvalidPrice and stores nothing, and every stored
\* Dataset has a non-empty id, a non-empty study list and a price > 0.
C21_StoredDatasetsValid ==
    /\ [](\A d \in DOMAIN datasets :
             /\ get_dataset(d).value.dataset_id = d /\ Len(d) > 0
             /\ Len(get_dataset(d).value.study_ids) > 0
             /\ get_dataset(d).value.price_usdc > 0)
    /\ [][(/\ lastCall'.op = "register_dataset"
           /\ Len(lastCall'.args.dataset_id) > 0
           /\ Len(lastCall'.args.study_ids) > 0
           /\ lastCall'.args.price_usdc <= 0)
            => /\ lastCall'.result = "InvalidPrice"
               /\ datasets' = datasets
               /\ events' = <<>>]_vars

\* A negative price and a price of zero: a negative price was rejected for
\* an unregistered id while a dataset is stored.
C21_Witness ==
    /\ lastCall.op = "register_dataset" /\ lastCall.result = "InvalidPrice"
    /\ lastCall.args.price_usdc < 0
    /\ Len(lastCall.args.study_ids) > 0
    /\ ~marketplace_dataset_exists(lastCall.args.dataset_id)
    /\ DOMAIN datasets # {}

\* C22: register_study on an unregistered hash fails with
\* InvalidAttestation when the attestation is empty and with InvalidZKProof
\* when the attestation is non-empty and the proof empty; no StudyRecord is
\* stored (get_study reports StudyNotFound) and no event is published.
C22_EmptyProofsRejected ==
    [][\A h \in Hashes :
         (/\ lastCall'.op = "register_study"
          /\ lastCall'.args.dataset_hash = h /\ ~dataset_exists(h)
          /\ \/ Len(lastCall'.args.attestation) = 0
             \/ Len(lastCall'.args.zk_proof) = 0)
         => /\ lastCall'.result =
                  IF Len(lastCall'.args.attestation) = 0 THEN "InvalidAttestation"
                  ELSE "InvalidZKProof"
            /\ ~dataset_exists(h)'
            /\ get_study(h)'.result = "StudyNotFound"
            /\ EventsOfType("StudyRegistered")' = {}]_vars

\* A registration with both the attestation and the proof empty was
\* rejected for the attestation; the hash has no record, another hash has.
C22_Witness ==
    /\ lastCall.op = "register_study" /\ lastCall.result = "InvalidAttestation"
    /\ lastCall.args.attestation = <<>> /\ lastCall.args.zk_proof = <<>>
    /\ get_study(lastCall.args.dataset_hash).result = "StudyNotFound"
    /\ DOMAIN studies # {}

\* C23: payout_for_dataset with a non-empty contributor list on a splitter
\* that lacks its token or its treasury fails with TokenNotSet or
\* TreasuryNotSet, the error naming an item that is missing, makes no
\* transfer and publishes no event.
C23_UnconfiguredPayoutRejected ==
    [][(/\ IsPayout(lastCall')
        /\ Len(lastCall'.args.contributors) > 0
        /\ (usdc_token = None \/ treasury = None))
         => /\ lastCall'.result \in {"TokenNotSet", "TreasuryNotSet"}
            /\ lastCall'.result = "TokenNotSet" => usdc_token = None
            /\ lastCall'.result = "TreasuryNotSet" => treasury = None
            /\ balance' = balance
            /\ lastCall'.info.transfers = <<>>
            /\ events' = <<>>]_vars

\* A payout over two contributors was rejected on a splitter that holds
\* funds but was never initialised.
C23_Witness ==
    /\ IsPayout(lastCall) /\ lastCall.result = "TokenNotSet"
    /\ Len(lastCall.args.contributors) = 2
    /\ usdc_token = None /\ treasury = None
    /\ balance[SplitterAddr] >= 2 * BASE_REWARD

\* C24: before any init the two getters fail with their not-set error;
\* every init(a, t) succeeds and makes them return a and t, whatever was
\* stored before, so repeating an init changes nothing; no other operation
\* changes what they return.
C24_InitOverwrites ==
    /\ get_usdc_token.result = "TokenNotSet"
    /\ get_treasury.result = "TreasuryNotSet"
    /\ [][/\ \A a \in TokenChoices, t \in TreasuryChoices :
               (/\ lastCall'.op = "init"
                /\ lastCall'.args = [usdc_token |-> a, treasury |-> t])
               => /\ lastCall'.result = "Ok"
                  /\ get_usdc_token' = [result |-> "Ok", value |-> a]
                  /\ get_treasury' = [result |-> "Ok", value |-> t]
                  /\ (get_usdc_token.value = a /\ get_treasury.value = t)
                        => UNCHANGED <<usdc_token, treasury, balance>>
          /\ lastCall'.op # "init"
               => /\ get_usdc_token' = get_usdc_token
                  /\ get_treasury' = get_treasury]_vars

\* A second init with another token and another treasury replaced the
\* configuration of the first.
C24_Witness ==
    /\ lastCall.op = "init"
    /\ lastCall.args = [usdc_token |-> "c1", treasury |-> "c2"]
    /\ get_usdc_token.value = "c1" /\ get_treasury.value = "c2"
    /\ balance[TreasuryAddr] > 0

\* C25: an operation changes only its own component's records.
\* register_study changes no marketplace or splitter state; register_dataset
\* and the two link setters change no registry or splitter state; init
\* changes no registry or marketplace state; purchase_dataset changes no
\* StudyRecord and not the splitter's configuration.
C25_ComponentsOwnTheirRecords ==
    [][/\ lastCall'.op = "register_study"
            => UNCHANGED <<datasets, purchases, revenue_splitter, study_registry,
                           usdc_token, treasury, balance>>
       /\ lastCall'.op \in {"register_dataset", "set_revenue_splitter",
                            "set_study_registry"}
            => UNCHANGED <<studies, usdc_token, treasury, balance>>
       /\ lastCall'.op = "init"
            => UNCHANGED <<studies, datasets, purchases, revenue_splitter,
                           study_registry>>
       /\ IsPurchase(lastCall')
            => UNCHANGED <<studies, usdc_token, treasury>>]_vars

\* A purchase called both other contracts: it looked up two hashes, found
\* a record for one of them, and had that contributor paid.
C25_Witness ==
    /\ IsPurchase(lastCall) /\ lastCall.result = "Ok"
    /\ lastCall.info.payout = "Ok"
    /\ Len(lastCall.info.contributors) = 1
    /\ Cardinality(DOMAIN studies) = 1
    /\ get_usdc_token.result = "Ok"

\* A study id the registry can resolve: 32 bytes long, with a StudyRecord.
Resolvable(study_id) == Len(study_id) = HashLen /\ study_id \in DOMAIN studies

\* The registered contributors of the resolvable ids of a study list, in
\* list order.
ResolvedContributors(study_ids) ==
    LET kept == SelectSeq(study_ids, Resolvable)
    IN  [i \in 1..Len(kept) |-> studies[kept[i]].contributor]

\* The contributors named by the ContributorRewarded events, in order.
RewardedContributors(evs) ==
    LET rewarded(e) == e.type = "ContributorRewarded"
        kept == SelectSeq(evs, rewarded)
    IN  [i \in 1..Len(kept) |-> kept[i].contributor]

\* C26: with the registry link pointing at the registry, the contributor
\* list purchase_dataset hands to the payout is the sequence, in study-list
\* order, of the registered contributors of the ids that are 32 bytes long
\* and have a StudyRecord; other ids are skipped and never fail the
\* purchase.
C26_ContributorsResolvedInOrder ==
    [][\A d \in DatasetIds :
         (/\ IsPurchase(lastCall') /\ lastCall'.args.dataset_id = d
          /\ marketplace_dataset_exists(d)
          /\ study_registry = RegistryAddr)
         => LET expected == ResolvedContributors(datasets[d].study_ids)
            IN  /\ lastCall'.info.contributors = expected
                /\ Len(expected) <= Len(datasets[d].study_ids)
                /\ lastCall'.result \in {"Ok", "RevenueSplitterNotSet"}
                /\ lastCall'.result = "RevenueSplitterNotSet"
                      => (revenue_splitter = None /\ Len(expected) > 0)
                /\ lastCall'.info.payout = "Ok"
                      => RewardedContributors(events') = expected]_vars

\* A purchase over the list (ShortId, H2) with both hashes registered paid
\* the contributor of H2 only.
C26_Witness ==
    /\ IsPurchase(lastCall) /\ lastCall.result = "Ok"
    /\ get_dataset(<<1>>).value.study_ids = <<ShortId, H2>>
    /\ DOMAIN studies = {H1, H2}
    /\ lastCall.info.contributors = <<"c2">>
    /\ lastCall.info.payout = "Ok"
    /\ RewardedContributors(events) = <<"c2">>

\* C27: with the registry link set and no study id of the dataset resolving
\* to a contributor, purchase_dataset succeeds without calling the
\* splitter: no transfer, no ContributorRewarded or DatasetPayoutCompleted
\* event, the PurchaseRecord stored and DatasetPurchased published.
C27_NoContributorsNoPayout ==
    [][\A d \in DatasetIds, b \in Buyers :
         (/\ IsPurchase(lastCall')
          /\ lastCall'.args = [dataset_id |-> d, buyer |-> b]
          /\ marketplace_dataset_exists(d)
          /\ study_registry # None
          /\ \/ study_registry # RegistryAddr
             \/ ResolvedContributors(datasets[d].study_ids) = <<>>)
         => /\ lastCall'.result = "Ok"
            /\ lastCall'.info.payout = "none"
            /\ StepAt(lastCall'.info.steps, "payout") = 0
            /\ lastCall'.info.transfers = <<>>
            /\ balance' = balance
            /\ events' = <<[type |-> "DatasetPurchased", buyer |-> b,
                            dataset_id |-> d,
                            price_usdc |-> datasets[d].price_usdc]>>
            /\ get_purchase(d, b)'.result = "Ok"]_vars

\* A purchase succeeded with the splitter link unset: the registry holds a
\* record, but for none of the dataset's ids.
C27_Witness ==
    /\ IsPurchase(lastCall) /\ lastCall.result = "Ok"
    /\ revenue_splitter = None /\ study_registry = RegistryAddr
    /\ DOMAIN studies = {H1}
    /\ get_dataset(<<1>>).value.study_ids = <<ShortId, H2>>
    /\ get_purchase(<<1>>, "b1").result = "Ok"

\* How often an address occurs in a contributor list.
Occurrences(cs, a) == Cardinality({i \in 1..Len(cs) : cs[i] = a})

\* C28: a successful payout over c1..cN makes exactly 2N transfers out of
\* the splitter's account, (c1, user_amount), (treasury, platform_amount),
\* (c2, user_amount), ...; the treasury receives N * 1_5000000, every
\* contributor 8_5000000 per occurrence in the list, and the splitter's
\* balance falls by N * 10_0000000, the sum of the aggregate event's totals.
C28_TransfersOfPayout ==
    [][(IsPayout(lastCall') /\ lastCall'.result = "Ok")
         => LET cs == lastCall'.args.contributors
                n == Len(lastCall'.args.contributors)
                xs == lastCall'.info.transfers
                done == events'[Len(events')]
                received(a) == Occurrences(cs, a) * 85000000
                                  + (IF a = treasury THEN n * 15000000 ELSE 0)
            IN  /\ Len(xs) = 2 * n
                /\ \A i \in 1..n :
                      /\ xs[2 * i - 1] = [to |-> cs[i], amount |-> 85000000]
                      /\ xs[2 * i] = [to |-> treasury, amount |-> 15000000]
                /\ \A a \in Holders \ {SplitterAddr} :
                      balance'[a] = balance[a] + received(a)
                /\ balance'[SplitterAddr] = balance[SplitterAddr] - n * 100000000
                /\ done.total_user_amount + done.total_platform_amount
                      = balance[SplitterAddr] - balance'[SplitterAddr]]_vars

\* A payout over (c1, c2) emptied a splitter that held 20_0000000; its
\* treasury is the account c2, which is also the second contributor.
C28_Witness ==
    /\ IsPayout(lastCall) /\ lastCall.result = "Ok"
    /\ lastCall.args.contributors = <<"c1", "c2">>
    /\ get_treasury.value = "c2"
    /\ balance[SplitterAddr] = 0
    /\ balance["c1"] = 85000000 /\ balance["c2"] = 115000000

\* C29: a successful direct payout_for_dataset publishes one
\* ContributorRewarded per list entry, in list order, each after that
\* entry's two transfers, and then one DatasetPayoutCompleted as the last
\* event; no DatasetPayoutCompleted precedes a ContributorRewarded of the
\* same invocation.
C29_PayoutEventOrder ==
    /\ \A i \in EventsOfType("DatasetPayoutCompleted"),
          j \in EventsOfType("ContributorRewarded") : j < i
    /\ (IsPayout(lastCall) /\ lastCall.result = "Ok")
          => LET cs == lastCall.args.contributors
                 n == Len(lastCall.args.contributors)
             IN  /\ Len(events) = n + 1
                 /\ \A i \in 1..n :
                       /\ events[i].type = "ContributorRewarded"
                       /\ events[i].contributor = cs[i]
                       /\ events[i].dataset_id = lastCall.args.dataset_id
                 /\ EventsOfType("DatasetPayoutCompleted") = {n + 1}
                 /\ lastCall.info.steps =
                       [k \in 1..(3 * n + 1) |->
                          IF k = 3 * n + 1 THEN "completed"
                          ELSE IF k % 3 = 1 THEN "transfer_user"
                          ELSE IF k % 3 = 2 THEN "transfer_platform"
                          ELSE "rewarded"]

\* A direct payout over (c1, c2): seven steps, three events.
C29_Witness ==
    /\ IsPayout(lastCall) /\ lastCall.result = "Ok"
    /\ lastCall.args.contributors = <<"c1", "c2">>
    /\ Len(lastCall.info.steps) = 7
    /\ Len(events) = 3

\* The checks of register_dataset that fail for a call, numbered in the
\* order non-empty id, non-empty study list, positive price, uniqueness.
FailedChecks(args, stored) ==
    {k \in 1..4 : \/ k = 1 /\ Len(args.dataset_id) = 0
                  \/ k = 2 /\ Len(args.study_ids) = 0
                  \/ k = 3 /\ args.price_usdc <= 0
                  \/ k = 4 /\ args.dataset_id \in stored}

FirstFailedCheck(args, stored) ==
    CHOOSE k \in FailedChecks(args, stored) :
        \A j \in FailedChecks(args, stored) : k <= j

\* Exactly one event, a DatasetRegistered with the length of the study list.
RegisteredEvent(args, evs) ==
    /\ Len(evs) = 1
    /\ evs[1] = [type |-> "DatasetRegistered", dataset_id |-> args.dataset_id,
                 price_usdc |-> args.price_usdc,
                 study_count |-> Len(args.study_ids)]

\* C30 as stated: register_dataset checks non-empty id, non-empty study
\* list, positive price and uniqueness in this order and reports the first
\* check that fails; its only errors are DatasetAlreadyExists,
\* InvalidStudyIds and InvalidPrice; on success it publishes exactly one
\* DatasetRegistered event whose study_count is the study list's length.
C30_RegisterErrorsAsListed ==
    [][lastCall'.op = "register_dataset"
         => LET args == lastCall'.args
                failed == FailedChecks(lastCall'.args, DOMAIN datasets)
            IN  /\ lastCall'.result \in {"Ok", "DatasetAlreadyExists",
                                         "InvalidStudyIds", "InvalidPrice"}
                /\ (lastCall'.result = "Ok") <=> (failed = {})
                /\ (failed # {} /\ 1 \notin failed)
                      => lastCall'.result =
                            <<"", "InvalidStudyIds", "InvalidPrice",
                              "DatasetAlreadyExists">>[
                                FirstFailedCheck(args, DOMAIN datasets)]
                /\ (lastCall'.result = "Ok") => RegisteredEvent(args, events')]_vars

\* C30 amended: the same order of checks, the first failing check reported,
\* with error results DatasetNotFound (empty id), InvalidStudyIds,
\* InvalidPrice and DatasetAlreadyExists; on success exactly one
\* DatasetRegistered event whose study_count is the study list's length.
C30_RegisterChecksInOrder ==
    [][lastCall'.op = "register_dataset"
         => LET args == lastCall'.args
                failed == FailedChecks(lastCall'.args, DOMAIN datasets)
            IN  /\ (lastCall'.result = "Ok") <=> (failed = {})
                /\ (failed # {})
                      => lastCall'.result =
                            <<"DatasetNotFound", "InvalidStudyIds",
                              "InvalidPrice", "DatasetAlreadyExists">>[
                                FirstFailedCheck(args, DOMAIN datasets)]
                /\ (lastCall'.result = "Ok") => RegisteredEvent(args, events')]_vars

\* An empty id with an empty study list and a price of zero, three failing
\* checks at once, was rejected with DatasetNotFound while a dataset is
\* stored.
C30_Witness ==
    /\ lastCall.op = "register_dataset" /\ lastCall.result = "DatasetNotFound"
    /\ lastCall.args = [dataset_id |-> <<>>, study_ids |-> <<>>, price_usdc |-> 0]
    /\ events = <<>>
    /\ DOMAIN datasets # {}

\* Whether the record or setting a read invocation asked for is stored.
ReadHits(c) ==
    CASE c.op \in {"study_registry::dataset_exists", "get_study"}
            -> c.args.dataset_hash \in DOMAIN studies
      [] c.op \in {"get_dataset", "dataset_marketplace::dataset_exists"}
            -> c.args.dataset_id \in DOMAIN datasets
      [] c.op = "get_purchase"
            -> <<c.args.dataset_id, c.args.buyer>> \in DOMAIN purchases
      [] c.op = "get_usdc_token" -> usdc_token # None
      [] c.op = "get_treasury" -> treasury # None

\* C31: the read functions (the registry's dataset_exists and get_study,
\* get_dataset, the marketplace's dataset_exists, get_purchase,
\* get_usdc_token, get_treasury) change no record, no link, no
\* configuration and no balance and publish no event, on a hit and on a
\* miss; a miss is reported as false or as a not-found error.
C31_ReadsChangeNothing ==
    [][lastCall'.op \in ReadOps
         => /\ UNCHANGED <<studies, datasets, purchases, revenue_splitter,
                           study_registry, usdc_token, treasury, balance>>
            /\ events' = <<>>
            /\ ReadHits(lastCall') => lastCall'.result \in {"Ok", "true"}
            /\ ~ReadHits(lastCall')
                  => lastCall'.result =
                        CASE lastCall'.op = "get_study" -> "StudyNotFound"
                          [] lastCall'.op \in {"get_dataset", "get_purchase"}
                                -> "DatasetNotFound"
                          [] lastCall'.op = "get_usdc_token" -> "TokenNotSet"
                          [] lastCall'.op = "get_treasury" -> "TreasuryNotSet"
                          [] OTHER -> "false"]_vars

\* get_purchase missed for buyer b2 while b1's record of the same dataset is
\* stored and the contributors have been paid.
C31_Witness ==
    /\ lastCall.op = "get_purchase" /\ lastCall.result = "DatasetNotFound"
    /\ lastCall.args.buyer = "b2"
    /\ <<lastCall.args.dataset_id, "b1">> \in DOMAIN purchases
    /\ balance["c1"] > 0
    /\ events = <<>>

\* Done: the purchase returned Ok, its record is stored and DatasetPurchased
\* is the last event it published.
PurchaseDone ==
    /\ IsPurchase(lastCall) /\ lastCall.result = "Ok"
    /\ <<lastCall.args.dataset_id, lastCall.args.buyer>> \in DOMAIN purchases
    /\ Len(events) > 0 /\ events[Len(events)].type = "DatasetPurchased"

\* Aborted: the purchase returned one of its typed errors and published
\* nothing.
PurchaseAborted ==
    /\ IsPurchase(lastCall)
    /\ lastCall.result \in {"DatasetNotFound", "PaymentFailed",
                            "RevenueSplitterNotSet", "StudyRegistryNotSet"}
    /\ events = <<>>

\* C32: every invocation of purchase_dataset, started in any reachable
\* state, ends in Done or in Aborted; it does not stay in an intermediate
\* state for ever, and while it is running no other invocation runs and no
\* write or event of it is visible: an aborted invocation leaves every
\* store as it was.
C32_PurchaseRunsToCompletion ==
    /\ InFlight(lastCall) ~> (PurchaseDone \/ PurchaseAborted)
    /\ [][InFlight(lastCall)
            => /\ IsPurchase(lastCall') /\ lastCall'.args = lastCall.args
               /\ (InFlight(lastCall') \/ lastCall'.result # "Ok")
                     => UNCHANGED <<studies, datasets, purchases, revenue_splitter,
                                    study_registry, usdc_token, treasury, balance,
                                    events>>]_vars

\* An invocation is in the middle of its payout: both contributors were
\* resolved, the first has been paid, the second not yet.
C32_Witness ==
    /\ InFlight(lastCall)
    /\ Len(SelectSeq(lastCall.info.steps, LAMBDA x : x = "payout")) = 3
    /\ balance["c1"] = 0 /\ balance[SplitterAddr] = 2 * BASE_REWARD
    /\ purchases = EmptyMap

\* C33: in every reachable state of the RevenueSplitter the token address
\* is set if and only if the treasury is set, init being the only writer of
\* the two and writing both; so payout_for_dataset never returns
\* TreasuryNotSet, and get_treasury fails exactly when get_usdc_token fails.
C33_TokenAndTreasurySetTogether ==
    /\ []((usdc_token = None) <=> (treasury = None))
    /\ [](IsPayout(lastCall) => lastCall.result # "TreasuryNotSet")
    /\ []((get_treasury.result = "TreasuryNotSet")
             <=> (get_usdc_token.result = "TokenNotSet"))
    /\ []((get_treasury.result = "Ok") <=> (get_usdc_token.result = "Ok"))
    /\ [][(usdc_token' # usdc_token \/ treasury' # treasury)
            => /\ lastCall'.op = "init"
               /\ usdc_token' = lastCall'.args.usdc_token
               /\ treasury' = lastCall'.args.treasury]_vars

\* A payout on a splitter that was initialised with an address that is not
\* the token contract: both getters succeed and the payout trapped in its
\* first transfer.
C33_Witness ==
    /\ IsPayout(lastCall) /\ lastCall.result = "Trap"
    /\ get_usdc_token = [result |-> "Ok", value |-> "c1"]
    /\ get_treasury.result = "Ok"
    /\ balance[SplitterAddr] >= BASE_REWARD

\* C34: purchase_dataset never returns PaymentFailed: the payment check
\* tests only that the stored price is positive, and every stored price is,
\* so the payment step passes for every registered dataset and every buyer.
C34_PaymentNeverFails ==
    /\ IsPurchase(lastCall) => lastCall.result # "PaymentFailed"
    /\ \A d \in DOMAIN datasets, b \in Buyers :
          /\ get_dataset(d).value.price_usdc > 0
          /\ verify_payment_mock(b, get_dataset(d).value.price_usdc)

\* The cheaper of two registered datasets was purchased, after
\* registrations with the prices 0 and -1 were attempted.
C34_Witness ==
    /\ IsPurchase(lastCall) /\ lastCall.result = "Ok"
    /\ DOMAIN datasets = {<<1>>, <<2>>}
    /\ datasets[lastCall.args.dataset_id].price_usdc = 50000000
    /\ \E d \in DOMAIN datasets : datasets[d].price_usdc = 200000000

\* The transfers of a completed payout over the contributor list cs: a
\* function of the list and the treasury only.
ExpectedTransfers(cs) ==
    [k \in 1..(2 * Len(cs)) |->
        IF k % 2 = 1 THEN [to |-> cs[(k + 1) \div 2], amount |-> 85000000]
        ELSE [to |-> treasury, amount |-> 15000000]]

\* C35: a successful purchase_dataset pays out 10_0000000 times the number
\* of contributors it resolved, whatever the dataset's price and whoever the
\* buyer: its transfers are those of a payout over the resolved list.
C35_PayoutIndependentOfPrice ==
    [][(IsPurchase(lastCall') /\ lastCall'.result = "Ok")
         => LET cs == lastCall'.info.contributors
            IN  /\ balance[SplitterAddr] - balance'[SplitterAddr]
                      = Len(cs) * 100000000
                /\ lastCall'.info.transfers = ExpectedTransfers(cs)]_vars

\* C36: contributors are not deduplicated: when the studies of a dataset
\* resolve to a contributor m times (a hash listed m times, or m studies of
\* one contributor), a successful purchase pays that contributor
\* m * 8_5000000 and the treasury 1_5000000 per resolved study, and publishes
\* m ContributorRewarded events naming that contributor.
C36_ContributorsNotDeduplicated ==
    [][\A d \in DatasetIds :
         (/\ IsPurchase(lastCall') /\ lastCall'.result = "Ok"
          /\ lastCall'.args.dataset_id = d
          /\ study_registry = RegistryAddr)
         => LET cs == ResolvedContributors(datasets[d].study_ids)
            IN  /\ \A c \in Contributors :
                      /\ balance'[c] - balance[c] = Occurrences(cs, c) * 85000000
                      /\ Occurrences(RewardedContributors(events'), c)
                            = Occurrences(cs, c)
                /\ balance'[TreasuryAddr] - balance[TreasuryAddr]
                      = Len(cs) * 15000000]_vars

\* C37: contributors are resolved when the dataset is purchased, not when
\* it is registered: register_dataset accepts study hashes that have no
\* StudyRecord; a successful purchase made through the registry skips the
\* hashes that have no record at that time and pays the contributor of
\* every hash that has one, whenever that record was registered.
C37_ResolvedAtPurchaseTime ==
    [][\A d \in DatasetIds :
         /\ (/\ lastCall'.op = "register_dataset" /\ lastCall'.args.dataset_id = d
             /\ Len(d) > 0 /\ d \notin DOMAIN datasets
             /\ Len(lastCall'.args.study_ids) > 0
             /\ lastCall'.args.price_usdc > 0)
               => lastCall'.result = "Ok"
         /\ (/\ IsPurchase(lastCall') /\ lastCall'.result = "Ok"
             /\ lastCall'.args.dataset_id = d
             /\ study_registry = RegistryAddr)
               => LET ids == datasets[d].study_ids
                  IN  /\ lastCall'.info.contributors = ResolvedContributors(ids)
                      /\ \A i \in 1..Len(ids) :
                            Resolvable(ids[i])
                               => /\ balance'[studies[ids[i]].contributor]
                                        >= balance[studies[ids[i]].contributor]
                                              + 85000000
                                  /\ \E j \in EventsOfType("ContributorRewarded")' :
                                        events'[j].contributor
                                           = studies[ids[i]].contributor]_vars

\* The bytes of d, then the ledger time t (below 256) as a big-endian u64,
\* then b"buyer".
TxHashAt(d, t) == d \o <<0, 0, 0, 0, 0, 0, 0, t>> \o <<98, 117, 121, 101, 114>>

\* The ledger time at which the stored record under key k was written.
PurchaseTime(k) == CHOOSE t \in 0..now : purchases[k].tx_hash = TxHashAt(k[1], t)

====
